---- MODULE Spec2Model ----
(***************************************************************************)
(* A model of src/GICS.js: the GICS classification-code class, its version *)
(* registry and its queries.                                               *)
(*                                                                         *)
(* JavaScript values are records [t, o, s, h]: t is the type tag, o the    *)
(* object a reference points into, s a string payload and h a number,      *)
(* counted in halves so that a non-integer such as 1.5 (h = 3) is a value. *)
(* Strings are TLA+ strings; Len, SubSeq and \o act on them as length,     *)
(* slice and concatenation.                                                *)
(***************************************************************************)
EXTENDS Integers, Sequences, FiniteSets, TLC

VARIABLES tables, entities, ret

vars == <<tables, entities, ret>>

(***************************************************************************)
(* Bounds of the model.                                                    *)
(***************************************************************************)
\* constructed GICS objects alive at once
MaxEntities == 2
\* longest code string of the form 111...1 offered to the constructor
MaxCodeLen == 10
\* largest level number offered to level()
MaxLevelArg == 5
\* largest depth offered to getChildren()
MaxDepthArg == 4

(***************************************************************************)
(* JavaScript values.                                                      *)
(***************************************************************************)
Val(t, o, s, h) == [t |-> t, o |-> o, s |-> s, h |-> h]

Undefined == Val("undefined", "", "", 0)

Null == Val("null", "", "", 0)

Str(s) == Val("string", "", s, 0)

\* the number k
Num(k) == Val("number", "", "", 2 * k)

\* the number h/2
Half(h) == Val("number", "", "", h)

Bool(b) == Val("boolean", "", IF b THEN "true" ELSE "false", 0)

\* a reference to the entry object stored under key in table object tid
EntryRef(tid, key) == Val("entry", tid, key, 0)

\* a reference to a definition table object
TableRef(tid) == Val("table", tid, "", 0)

\* a built-in function reached through the prototype chain
Builtin(name) == Val("builtin", "", name, 0)

\* ToBoolean
Truthy(v) ==
    CASE v.t = "undefined" -> FALSE
      [] v.t = "null" -> FALSE
      [] v.t = "string" -> v.s # ""
      [] v.t = "number" -> v.h # 0
      [] v.t = "boolean" -> v.s = "true"
      [] OTHER -> TRUE

\* String.prototype.startsWith
StartsWith(s, p) == Len(p) <= Len(s) /\ SubSeq(s, 1, Len(p)) = p

\* String.prototype.slice(0, n)
Slice0(s, n) == SubSeq(s, 1, IF n < Len(s) THEN n ELSE Len(s))

(***************************************************************************)
(* The definition tables (the required ../definitions/* modules) and the   *)
(* registry object of lines 3-9.  An entry carries name and description;   *)
(* its code field is absent (Undefined) until the class stamps it.         *)
(***************************************************************************)
Entry(name, description) == [name |-> name, description |-> description, code |-> Undefined]

Table20140228 ==
    [k \in {"10", "1010", "101010", "10101010", "10101020", "15"} |->
        CASE k = "10" -> Entry("Energy", Undefined)
          [] k = "1010" -> Entry("Energy", Undefined)
          [] k = "101010" -> Entry("Energy Equipment & Services", Undefined)
          [] k = "10101010" -> Entry("Oil & Gas Drilling", Str("Drilling contractors"))
          [] k = "10101020" -> Entry("Oil & Gas Equipment & Services", Str("Equipment makers"))
          [] k = "15" -> Entry("Materials", Undefined)]

Table20160901 ==
    [k \in {"10"} |-> Entry("Energy", Undefined)]

Table20180929 ==
    [k \in {"10"} |-> Entry("Energy", Undefined)]

Table20230318 ==
    [k \in {"10", "1010"} |-> Entry("Energy", Undefined)]

TableIds == {"t20140228", "t20160901", "t20180929", "t20230318"}

InitTables ==
    [tid \in TableIds |->
        CASE tid = "t20140228" -> Table20140228
          [] tid = "t20160901" -> Table20160901
          [] tid = "t20180929" -> Table20180929
          [] tid = "t20230318" -> Table20230318]

\* own properties of the registry object: default is the same object as 20230318
definitions ==
    [v \in {"20140228", "20160901", "20180929", "20230318", "default"} |->
        CASE v = "20140228" -> TableRef("t20140228")
          [] v = "20160901" -> TableRef("t20160901")
          [] v = "20180929" -> TableRef("t20180929")
          [] v = "20230318" -> TableRef("t20230318")
          [] v = "default" -> TableRef("t20230318")]

\* members every plain object inherits from Object.prototype
ObjectPrototypeNames == {"toString", "constructor", "valueOf", "hasOwnProperty"}

\* definitions[name]: an own property, else an inherited one, else undefined
RegistryGet(name) ==
    IF name \in DOMAIN definitions THEN definitions[name]
    ELSE IF name \in ObjectPrototypeNames THEN Builtin(name)
    ELSE Undefined

\* obj[key] for the object a resolved definition is
PropGet(tabs, obj, key) ==
    IF obj.t = "table" /\ key \in DOMAIN tabs[obj.o] THEN EntryRef(obj.o, key)
    ELSE IF key \in ObjectPrototypeNames THEN Builtin(key)
    ELSE Undefined

(***************************************************************************)
(* Object.keys: own keys; integer-like keys come in ascending numeric      *)
(* order.                                                                  *)
(***************************************************************************)
DigitVal(c) ==
    CASE c = "0" -> 0 [] c = "1" -> 1 [] c = "2" -> 2 [] c = "3" -> 3 [] c = "4" -> 4
      [] c = "5" -> 5 [] c = "6" -> 6 [] c = "7" -> 7 [] c = "8" -> 8 [] c = "9" -> 9

RECURSIVE StrToNat(_)
StrToNat(s) ==
    IF Len(s) = 0 THEN 0
    ELSE 10 * StrToNat(SubSeq(s, 1, Len(s) - 1)) + DigitVal(SubSeq(s, Len(s), Len(s)))

RECURSIVE Ascending(_)
Ascending(S) ==
    IF S = {} THEN <<>>
    ELSE LET m == CHOOSE k \in S : \A j \in S : StrToNat(k) <= StrToNat(j)
         IN <<m>> \o Ascending(S \ {m})

\* the key order of the tables as loaded, computed once
LoadedKeyOrder == [tid \in TableIds |-> Ascending(DOMAIN InitTables[tid])]

ObjectKeys(tabs, obj) ==
    IF obj.t # "table" THEN <<>>
    ELSE IF DOMAIN tabs[obj.o] = DOMAIN InitTables[obj.o] THEN LoadedKeyOrder[obj.o]
    ELSE Ascending(DOMAIN tabs[obj.o])

(***************************************************************************)
(* The class.                                                              *)
(***************************************************************************)
GICS(definitionVersion, code, isValid, levels) ==
    [definitionVersion |-> definitionVersion, code |-> code, isValid |-> isValid, levels |-> levels]

NoEntity == GICS("", Undefined, FALSE, <<>>)

\* get _definition()
definition(e) == RegistryGet(e.definitionVersion)

\* function level(gicsCode): the code's depth, 0 for a null or empty code
level(gicsCode) ==
    IF Truthy(gicsCode) THEN Len(gicsCode.s) \div 2 ELSE 0

\* the outcome of a step that may throw while it writes to the tables
Step(tabs, threw, def) == [tables |-> tabs, threw |-> threw, def |-> def]

\* _getDefinition writing the wrong field of the entry
getDefinitionIntoName(tabs, e, gicsCode) ==
    LET def == PropGet(tabs, definition(e), gicsCode)
    IN CASE def.t = "undefined" -> Step(tabs, "TypeError", Undefined)
         [] def.t = "entry" ->
              Step([tabs EXCEPT ![def.o][def.s].name = gicsCode], "", def)
         [] OTHER -> Step(tabs, "", def)

\* _getDefinition(gicsCode): fetches the entry and writes its code field in place
getDefinition(tabs, e, gicsCode) ==
    LET def == PropGet(tabs, definition(e), gicsCode)
    IN CASE def.t = "undefined" -> Step(tabs, "TypeError", Undefined)
         [] def.t = "entry" ->
              Step([tabs EXCEPT ![def.o][def.s].code = Str(gicsCode)], "", def)
         [] OTHER -> Step(tabs, "", def)

\* the level slot of prefix length n, filled after the step prev
levelSlot(prev, e, code, n, wanted) ==
    IF prev.threw # "" THEN prev
    ELSE IF wanted THEN getDefinition(prev.tables, e, Slice0(code, n))
    ELSE Step(prev.tables, "", Null)

\* the outcome of new GICS(code, version)
Made(tabs, threw, e) == [tables |-> tabs, threw |-> threw, entity |-> e]

\* constructor(code, version)
constructor(tabs, code, version) ==
    LET defName == IF Truthy(version) THEN version.s ELSE "default"
        this0 == GICS(defName, code, FALSE, <<>>)
        def == definition(this0)
        isValid ==
            /\ Truthy(code)
            /\ code.t = "string"
            /\ Len(code.s) >= 2
            /\ Len(code.s) <= 8
            /\ Len(code.s) % 2 = 0
            /\ Truthy(PropGet(tabs, def, code.s))
    IN IF ~Truthy(def) THEN Made(tabs, "Error", NoEntity)
       ELSE IF isValid THEN
           LET s1 == getDefinition(tabs, this0, Slice0(code.s, 2))
               s2 == levelSlot(s1, this0, code.s, 4, Len(code.s) >= 4)
               s3 == levelSlot(s2, this0, code.s, 6, Len(code.s) >= 6)
               s4 == levelSlot(s3, this0, code.s, 8, Len(code.s) = 8)
           IN IF s4.threw # "" THEN Made(s4.tables, s4.threw, NoEntity)
              ELSE Made(s4.tables, "", GICS(defName, code, TRUE, <<s1.def, s2.def, s3.def, s4.def>>))
       ELSE Made(tabs, "", GICS(defName, Null, FALSE, <<>>))

\* level(gicsLevel) indexing the levels one too far
levelOfOffByOne(e, gicsLevel) ==
    IF \/ ~e.isValid
       \/ ~Truthy(gicsLevel)
       \/ gicsLevel.t # "number"
       \/ gicsLevel.h < 2
       \/ gicsLevel.h > 8
    THEN Null
    ELSE IF gicsLevel.h % 2 = 0
    THEN (IF gicsLevel.h \div 2 < 4 THEN e.levels[(gicsLevel.h \div 2) + 1] ELSE Undefined)
    ELSE Undefined

\* level(gicsLevel)
levelOf(e, gicsLevel) ==
    IF \/ ~e.isValid
       \/ ~Truthy(gicsLevel)
       \/ gicsLevel.t # "number"
       \/ gicsLevel.h < 2
       \/ gicsLevel.h > 8
    THEN Null
    ELSE IF gicsLevel.h % 2 = 0 THEN e.levels[(gicsLevel.h \div 2 - 1) + 1]
    ELSE Undefined

\* Number.prototype.toString for the small integers a level can be
NumToStr(v) ==
    CASE v.h = 0 -> "0" [] v.h = 2 -> "1" [] v.h = 4 -> "2" [] v.h = 6 -> "3" [] v.h = 8 -> "4"

\* a + b for a number a: numeric addition, null counts as 0, a string concatenates
Plus(a, b) ==
    CASE b.t = "number" -> Half(a.h + b.h)
      [] b.t = "null" -> a
      [] b.t = "string" -> Str(NumToStr(a) \o b.s)

\* a === b
StrictEq(a, b) == a = b

Child(code, name, description) == [code |-> code, name |-> name, description |-> description]

\* getChildren without the prefix test
getChildrenAnyPrefix(tabs, e, depthArg) ==
    LET depth == IF depthArg.t = "undefined" THEN Num(1) ELSE depthArg
        def == definition(e)
        all == ObjectKeys(tabs, def)
        keys ==
            IF e.isValid
            THEN SelectSeq(all, LAMBDA k :
                     StrictEq(Plus(Num(level(e.code)), depth), Num(level(Str(k)))))
            ELSE SelectSeq(all, LAMBDA k : StrictEq(Num(level(Str(k))), depth))
    IN [i \in 1..Len(keys) |->
           Child(keys[i], tabs[def.o][keys[i]].name, tabs[def.o][keys[i]].description)]

\* getChildren counting the depth from the code's own level as 1
getChildrenOffByOne(tabs, e, depthArg) ==
    LET depth == IF depthArg.t = "undefined" THEN Num(1) ELSE depthArg
        def == definition(e)
        all == ObjectKeys(tabs, def)
        keys ==
            IF e.isValid
            THEN SelectSeq(all, LAMBDA k :
                     /\ StartsWith(k, e.code.s)
                     /\ StrictEq(Plus(Num(level(e.code) - 1), depth), Num(level(Str(k)))))
            ELSE SelectSeq(all, LAMBDA k : StrictEq(Num(level(Str(k))), depth))
    IN [i \in 1..Len(keys) |->
           Child(keys[i], tabs[def.o][keys[i]].name, tabs[def.o][keys[i]].description)]

\* getChildren(depth = 1)
getChildren(tabs, e, depthArg) ==
    LET depth == IF depthArg.t = "undefined" THEN Num(1) ELSE depthArg
        def == definition(e)
        all == ObjectKeys(tabs, def)
        keys ==
            IF e.isValid
            THEN SelectSeq(all, LAMBDA k :
                     /\ StartsWith(k, e.code.s)
                     /\ StrictEq(Plus(Num(level(e.code)), depth), Num(level(Str(k)))))
            ELSE SelectSeq(all, LAMBDA k : StrictEq(Num(level(Str(k))), depth))
    IN [i \in 1..Len(keys) |->
           Child(keys[i], tabs[def.o][keys[i]].name, tabs[def.o][keys[i]].description)]

\* get children()
children(tabs, e) == getChildren(tabs, e, Num(1))

\* isSame(anotherGics)
isSame(this, anotherGics) ==
    /\ this.isValid = anotherGics.isValid
    /\ (this.isValid = FALSE \/ StrictEq(this.code, anotherGics.code))

\* isWithin(anotherGics)
isWithin(this, anotherGics) ==
    /\ this.isValid
    /\ anotherGics.isValid
    /\ ~StrictEq(this.code, anotherGics.code)
    /\ StartsWith(this.code.s, anotherGics.code.s)

\* isImmediateWithin without the length test
isImmediateWithinAnyGap(this, anotherGics) ==
    /\ this.isValid
    /\ anotherGics.isValid
    /\ ~StrictEq(this.code, anotherGics.code)
    /\ StartsWith(this.code.s, anotherGics.code.s)

\* isImmediateWithin(anotherGics)
isImmediateWithin(this, anotherGics) ==
    /\ this.isValid
    /\ anotherGics.isValid
    /\ ~StrictEq(this.code, anotherGics.code)
    /\ StartsWith(this.code.s, anotherGics.code.s)
    /\ Len(this.code.s) = Len(anotherGics.code.s) + 2

\* contains(anotherGics)
contains(this, anotherGics) == isWithin(anotherGics, this)

\* containsImmediate delegating with the receiver and the argument not swapped
containsImmediateUnswapped(this, anotherGics) == isImmediateWithin(this, anotherGics)

\* containsImmediate(anotherGics)
containsImmediate(this, anotherGics) == isImmediateWithin(anotherGics, this)

\* Array.prototype.find by name: the first match as a one-element sequence, <<>> for none
FindByName(cs, childName) ==
    LET hits == SelectSeq(cs, LAMBDA c : StrictEq(Str(c.name), childName))
    IN IF Len(hits) = 0 THEN <<>> ELSE <<hits[1]>>

\* findDeep(depth) of findChild: <<>> stands for null
RECURSIVE findDeep(_, _, _, _)
findDeep(tabs, e, childName, depth) ==
    LET cs == getChildren(tabs, e, Num(depth))
        child == FindByName(cs, childName)
    IN IF Len(cs) = 0 THEN <<>>
       ELSE IF Len(child) > 0 THEN child
       ELSE findDeep(tabs, e, childName, depth + 1)

\* findChild starting its search at the entity's own level
findChildFromSelf(tabs, e, childName) == findDeep(tabs, e, childName, 0)

\* findChild(childName)
findChild(tabs, e, childName) == findDeep(tabs, e, childName, 1)

(***************************************************************************)
(* The inputs the callers offer.                                           *)
(***************************************************************************)
\* the first n characters of 101010...
RECURSIVE TenPrefix(_)
TenPrefix(n) ==
    IF n = 0 THEN "" ELSE TenPrefix(n - 1) \o (IF n % 2 = 1 THEN "1" ELSE "0")

CodeStrings ==
    {TenPrefix(n) : n \in 0..MaxCodeLen}
        \cup UNION {DOMAIN InitTables[tid] : tid \in TableIds}
        \cup {"20", "1510", "toString"}

CodeInputs == {Undefined, Null, Num(10)} \cup {Str(c) : c \in CodeStrings}

\* omitted, empty, a dated version, the default, an unknown one, an inherited member
VersionInputs ==
    {Undefined, Str(""), Str("20140228"), Str("default"), Str("19990101"), Str("toString")}

LevelInputs == {Undefined, Null, Str("1")} \cup {Half(h) : h \in -2..(2 * MaxLevelArg)}

DepthInputs == {Undefined, Null, Str("1")} \cup {Half(h) : h \in -2..(2 * MaxDepthArg)}

NameInputs ==
    {Undefined, Str("Energy"), Str("Oil & Gas Equipment & Services"), Str("Utilities")}

(***************************************************************************)
(* The state machine: the tables, the GICS objects constructed so far and  *)
(* the last call with its arguments and its result.                        *)
(***************************************************************************)
Call(op, self, other, code, version, arg, out, list, threw) ==
    [op |-> op, self |-> self, other |-> other, code |-> code, version |-> version,
     arg |-> arg, out |-> out, list |-> list, threw |-> threw]

Init ==
    /\ tables = InitTables
    /\ entities = {}
    /\ ret = Call("none", NoEntity, NoEntity, Undefined, Undefined, Undefined, Undefined, <<>>, "")

Query(op, self, other, arg, out, list) ==
    /\ ret' = Call(op, self, other, Undefined, Undefined, arg, out, list, "")
    /\ UNCHANGED <<tables, entities>>

Construct(code, version) ==
    /\ Cardinality(entities) < MaxEntities
    /\ LET r == constructor(tables, code, version)
       IN /\ tables' = r.tables
          /\ entities' = IF r.threw = "" THEN entities \cup {r.entity} ELSE entities
          /\ ret' = Call("construct", r.entity, NoEntity, code, version, Undefined,
                         Undefined, <<>>, r.threw)

Level(e, n) == Query("level", e, NoEntity, n, levelOf(e, n), <<>>)

Sector(e) == Query("sector", e, NoEntity, Undefined, levelOf(e, Num(1)), <<>>)

IndustryGroup(e) == Query("industryGroup", e, NoEntity, Undefined, levelOf(e, Num(2)), <<>>)

Industry(e) == Query("industry", e, NoEntity, Undefined, levelOf(e, Num(3)), <<>>)

SubIndustry(e) == Query("subIndustry", e, NoEntity, Undefined, levelOf(e, Num(4)), <<>>)

Children(e) == Query("children", e, NoEntity, Undefined, Undefined, children(tables, e))

GetChildren(e, depth) ==
    Query("getChildren", e, NoEntity, depth, Undefined, getChildren(tables, e, depth))

IsSame(e, o) == Query("isSame", e, o, Undefined, Bool(isSame(e, o)), <<>>)

IsWithin(e, o) == Query("isWithin", e, o, Undefined, Bool(isWithin(e, o)), <<>>)

IsImmediateWithin(e, o) ==
    Query("isImmediateWithin", e, o, Undefined, Bool(isImmediateWithin(e, o)), <<>>)

Contains(e, o) == Query("contains", e, o, Undefined, Bool(contains(e, o)), <<>>)

ContainsImmediate(e, o) ==
    Query("containsImmediate", e, o, Undefined, Bool(containsImmediate(e, o)), <<>>)

FindChild(e, childName) ==
    LET found == findChild(tables, e, childName)
    IN Query("findChild", e, NoEntity, childName,
             IF Len(found) = 0 THEN Null ELSE Val("object", "", "", 0), found)

Next ==
    \/ \E code \in CodeInputs, version \in VersionInputs : Construct(code, version)
    \/ \E e \in entities, n \in LevelInputs : Level(e, n)
    \/ \E e \in entities : Sector(e)
    \/ \E e \in entities : IndustryGroup(e)
    \/ \E e \in entities : Industry(e)
    \/ \E e \in entities : SubIndustry(e)
    \/ \E e \in entities : Children(e)
    \/ \E e \in entities, depth \in DepthInputs : GetChildren(e, depth)
    \/ \E e \in entities, o \in entities : IsSame(e, o)
    \/ \E e \in entities, o \in entities : IsWithin(e, o)
    \/ \E e \in entities, o \in entities : IsImmediateWithin(e, o)
    \/ \E e \in entities, o \in entities : Contains(e, o)
    \/ \E e \in entities, o \in entities : ContainsImmediate(e, o)
    \/ \E e \in entities, childName \in NameInputs : FindChild(e, childName)

Spec == Init /\ [][Next]_vars

(***************************************************************************)
(* Vocabulary of the properties.                                           *)
(***************************************************************************)
\* the own keys of the table an entity is bound to
OwnKeys(e) ==
    IF definition(e).t = "table" THEN DOMAIN tables[definition(e).o] ELSE {}

\* the entry object a reference points to, as it is now
Deref(v) == tables[v.o][v.s]

Codes(list) == {list[i].code : i \in 1..Len(list)}

\* v is omitted or a number
IsDepth(v) == v.t \in {"undefined", "number"}

\* the depth offset, in halves, a getChildren argument stands for
DepthHalves(v) == IF v.t = "undefined" THEN 2 ELSE v.h

\* v is an integer in lo..hi
IsIntIn(v, lo, hi) == v.t = "number" /\ v.h % 2 = 0 /\ (v.h \div 2) \in lo..hi

LevelOps == {"level", "sector", "industryGroup", "industry", "subIndustry"}

\* the level number a level call asked for
AskedLevel ==
    CASE ret.op = "level" -> ret.arg
      [] ret.op = "sector" -> Num(1)
      [] ret.op = "industryGroup" -> Num(2)
      [] ret.op = "industry" -> Num(3)
      [] ret.op = "subIndustry" -> Num(4)

PrefixClosed(keys) ==
    \A k \in keys : \A n \in 1..(Len(k) \div 2) : SubSeq(k, 1, 2 * n) \in keys

\* C1: construct(c, version) completes for every resolvable version, valid exactly
\* when c is a string of even length in [2,8] that is a key of the resolved table,
\* and an invalid entity holds a null code.
C1_ValidIffWellFormedKey ==
    (ret.op = "construct"
        /\ (~Truthy(ret.version) \/ ret.version.s \in DOMAIN definitions))
    => LET table == definitions[IF Truthy(ret.version) THEN ret.version.s ELSE "default"]
           wellFormedKey ==
               /\ ret.code.t = "string"
               /\ Len(ret.code.s) \in 2..8
               /\ Len(ret.code.s) % 2 = 0
               /\ ret.code.s \in DOMAIN tables[table.o]
       IN /\ ret.threw = ""
          /\ ret.self.isValid <=> wellFormedKey
          /\ ~ret.self.isValid => ret.self.code = Null

\* C3: a provided version that is not a known identifier makes construction fail
\* with an error; an omitted or falsy version binds the entity to the default table.
C3_UnknownVersionFails ==
    ret.op = "construct"
    => /\ (Truthy(ret.version) /\ ret.version.s \notin DOMAIN definitions)
              => ret.threw = "Error"
       /\ (~Truthy(ret.version) /\ ret.threw = "")
              => definition(ret.self) = definitions["default"]

\* C8: level(n) returns null whenever n is not an integer in [1,4] or the entity is
\* invalid.
C8_LevelNullOutOfDomain ==
    (ret.op = "level" /\ (~IsIntIn(ret.arg, 1, 4) \/ ~ret.self.isValid))
    => ret.out = Null

C4_LevelIsPrefixEntry ==
    (ret.op \in LevelOps
        /\ ret.self.isValid
        /\ PrefixClosed(OwnKeys(ret.self))
        /\ IsIntIn(AskedLevel, 1, 4))
    => LET c == ret.self.code.s
           d == AskedLevel.h \div 2
       IN IF d <= Len(c) \div 2
          THEN /\ ret.out.t = "entry"
               /\ Deref(ret.out).code = Str(SubSeq(c, 1, 2 * d))
          ELSE ret.out = Null

\* C4 witness: level(4) of a four-level code has returned the entry of the code
\* itself.
C4_Witness ==
    /\ ret.op = "level"
    /\ ret.self.isValid
    /\ Len(ret.self.code.s) = 8
    /\ ret.arg = Num(4)
    /\ ret.out.t = "entry"
    /\ Deref(ret.out).code = ret.self.code

\* the keys lying exactly h halves of a level below an entity (below the root for
\* an invalid one)
KeysBelow(e, h) ==
    {k \in OwnKeys(e) :
        IF e.isValid
        THEN StartsWith(k, e.code.s) /\ 2 * (Len(k) \div 2) = 2 * (Len(e.code.s) \div 2) + h
        ELSE 2 * (Len(k) \div 2) = h}

\* the place of a key in the table's key order
KeyIndex(e, k) ==
    LET order == ObjectKeys(tables, definition(e))
    IN CHOOSE i \in 1..Len(order) : order[i] = k

\* the entry a listing gives for key k
Listed(e, k) ==
    Child(k, tables[definition(e).o][k].name, tables[definition(e).o][k].description)

\* C5: findChild(name) is null when no descendant at any depth offset >= 1 has that
\* name; otherwise it is the first entry, in table order, of the smallest depth
\* offset with a match, and never the entity's own entry.
C5_FindChildShallowestFirst ==
    ret.op = "findChild"
    => LET e == ret.self
           Match(d) == {k \in KeysBelow(e, 2 * d) : ret.arg = Str(Listed(e, k).name)}
           depths == {d \in 1..4 : Match(d) # {}}
       IN IF depths = {}
          THEN ret.out = Null /\ ret.list = <<>>
          ELSE LET dmin == CHOOSE d \in depths : \A x \in depths : d <= x
                   first == CHOOSE k \in Match(dmin) :
                                \A x \in Match(dmin) : KeyIndex(e, k) <= KeyIndex(e, x)
               IN /\ ret.list = <<Listed(e, first)>>
                  /\ ret.out # Null
                  /\ e.isValid => first # e.code.s

\* C5 witness: a sector named like its own industry group was searched for that
\* name and the industry group, one level down, came back.
C5_Witness ==
    /\ ret.op = "findChild"
    /\ ret.self.isValid
    /\ ret.self.code = Str("10")
    /\ ret.arg = Str("Energy")
    /\ Codes(ret.list) = {"1010"}

\* C6 as stated: for a valid code and every depth offset, getChildren returns exactly
\* the entries that start with the code and lie depthOffset levels below it, and every
\* returned entry is a strict descendant of the code.
C6_ChildrenExactAndStrict ==
    (ret.op = "getChildren" /\ ret.self.isValid /\ IsDepth(ret.arg))
    => /\ Codes(ret.list) = KeysBelow(ret.self, DepthHalves(ret.arg))
       /\ \A i \in 1..Len(ret.list) : ret.list[i].code # ret.self.code.s

\* C6 as amended: for a valid code and every depth offset, getChildren returns, in
\* table order and once each, exactly the entries that start with the code and lie
\* depthOffset levels below it; they are strict descendants for every offset but 0,
\* and at offset 0 the result is the code's own entry.
C6_ChildrenExact ==
    (ret.op = "getChildren" /\ ret.self.isValid /\ IsDepth(ret.arg))
    => /\ Codes(ret.list) = KeysBelow(ret.self, DepthHalves(ret.arg))
       /\ \A i \in 1..Len(ret.list) : ret.list[i] = Listed(ret.self, ret.list[i].code)
       /\ \A i, j \in 1..Len(ret.list) :
             i < j => KeyIndex(ret.self, ret.list[i].code) < KeyIndex(ret.self, ret.list[j].code)
       /\ DepthHalves(ret.arg) # 0
             => \A i \in 1..Len(ret.list) :
                    /\ ret.list[i].code # ret.self.code.s
                    /\ StartsWith(ret.list[i].code, ret.self.code.s)
       /\ DepthHalves(ret.arg) = 0
             => ret.list = <<Listed(ret.self, ret.self.code.s)>>

\* C6 witness: getChildren(1) of an industry has listed its two sub-industries.
C6_Witness ==
    /\ ret.op = "getChildren"
    /\ ret.self.isValid
    /\ ret.self.code = Str("101010")
    /\ ret.arg = Num(1)
    /\ Codes(ret.list) = {"10101010", "10101020"}

\* C7 as stated: for a valid 8-character code, children and getChildren return an
\* empty sequence for every depth offset.
C7_MaxLengthHasNoChildren ==
    (ret.op \in {"children", "getChildren"}
        /\ ret.self.isValid
        /\ Len(ret.self.code.s) = 8)
    => ret.list = <<>>

\* C7 as amended: for a valid 8-character code, children and getChildren return an
\* empty sequence for every depth offset other than 0; at offset 0, and at a null
\* offset, which adds nothing, getChildren returns the code's own entry.
C7_MaxLengthHasNoChildrenBelow ==
    (ret.op \in {"children", "getChildren"}
        /\ ret.self.isValid
        /\ Len(ret.self.code.s) = 8)
    => IF ret.op = "getChildren" /\ ret.arg \in {Num(0), Null}
       THEN ret.list = <<Listed(ret.self, ret.self.code.s)>>
       ELSE ret.list = <<>>

\* C7 witness: getChildren(1) of a sub-industry has returned the empty sequence.
C7_Witness ==
    /\ ret.op = "getChildren"
    /\ ret.self.isValid
    /\ Len(ret.self.code.s) = 8
    /\ ret.arg = Num(1)
    /\ ret.list = <<>>

\* C9: isImmediateWithin(b, a) is true exactly when isWithin(b, a) is true and b's
\* code is 2 characters longer than a's; when either entity is invalid both are false.
C9_ImmediateIsWithinOneLevel ==
    /\ ret.op = "isImmediateWithin"
          => /\ ret.out = Bool(/\ isWithin(ret.self, ret.other)
                               /\ Len(ret.self.code.s) - Len(ret.other.code.s) = 2)
             /\ (~ret.self.isValid \/ ~ret.other.isValid) => ret.out = Bool(FALSE)
    /\ (ret.op = "isWithin" /\ (~ret.self.isValid \/ ~ret.other.isValid))
          => ret.out = Bool(FALSE)

\* C9 witness: isImmediateWithin has answered false for two valid codes two levels
\* apart, one within the other.
C9_Witness ==
    /\ ret.op = "isImmediateWithin"
    /\ ret.out = Bool(FALSE)
    /\ isWithin(ret.self, ret.other)
    /\ Len(ret.self.code.s) - Len(ret.other.code.s) = 4

\* the entity new GICS(k, version of a) gives: NoEntity when construction throws
Sibling(a, k) == constructor(tables, Str(k), Str(a.definitionVersion)).entity

\* C10: for a valid code a and every code string k of the same version, k is listed
\* by a.children exactly when the entity of k is valid and a.containsImmediate holds
\* of it, and k is listed by a.getChildren(d) for some d >= 1 exactly when a.contains
\* holds of it.
C10_ChildrenAgreeWithContainment ==
    /\ (ret.op = "children" /\ ret.self.isValid)
          => \A k \in CodeStrings :
                 k \in Codes(ret.list)
                     <=> /\ Sibling(ret.self, k).isValid
                         /\ containsImmediate(ret.self, Sibling(ret.self, k))
    /\ (ret.op = "getChildren" /\ ret.self.isValid /\ IsIntIn(ret.arg, 1, MaxDepthArg))
          => /\ \A k \in Codes(ret.list) :
                    /\ Sibling(ret.self, k).isValid
                    /\ contains(ret.self, Sibling(ret.self, k))
             /\ \A k \in CodeStrings :
                    (Sibling(ret.self, k).isValid /\ contains(ret.self, Sibling(ret.self, k)))
                        => \E d \in 1..4 : k \in Codes(getChildren(tables, ret.self, Num(d)))

\* C10 witness: children of a valid code has listed an entry.
C10_Witness ==
    /\ ret.op = "children"
    /\ ret.self.isValid
    /\ Len(ret.list) > 0

====
